---- MODULE Spec2Model ----
(***************************************************************************)
(* A model of the three tools of the SQL agent (src/tools.py) and of the   *)
(* way src/agent.py wires them into a bounded reasoning loop.              *)
(*                                                                         *)
(* Python values are tagged records, so that isinstance tests, truthiness  *)
(* and str() are computed rather than assumed.  A Python str is a sequence *)
(* of pieces: literal text ([lit |-> ...]) or the rendering of a value     *)
(* ([repr |-> ...]); a file name is a str whose pieces are single          *)
(* characters.                                                             *)
(***************************************************************************)
EXTENDS Integers, Sequences, FiniteSets, TLC

\* ---------------------------------------------------------------- bounds
\* Calls of execute_sql and get_schema that the model follows.
MaxSteps == 3
\* Calls of save_data_to_csv that the model follows.
MaxSaves == 2

\* --------------------------------------------------------- Python values
PyNone == [t |-> "none"]
PyInt(i) == [i |-> i, t |-> "int"]
PyList(xs) == [items |-> xs, t |-> "list"]
PyTuple(xs) == [items |-> xs, t |-> "tuple"]
Lit(x) == [lit |-> x]
Repr(v) == [repr |-> v]
\* A str made of the given pieces.
PyStr(ps) == [s |-> ps, t |-> "str"]
\* A str holding one literal text (the empty text is the empty str).
Str(x) == IF x = "" THEN PyStr(<<>>) ELSE PyStr(<<Lit(x)>>)
\* A str given character by character.
Chars(cs) == PyStr([i \in 1..Len(cs) |-> Lit(cs[i])])

IsStr(v) == v.t = "str"
IsList(v) == v.t = "list"
IsSeqLike(v) == v.t \in {"list", "tuple"}
\* Python truthiness of None and of str, as `if table_name:` uses it.
Truthy(v) == IF v.t = "none" THEN FALSE ELSE IF v.t = "str" THEN v.s # <<>> ELSE TRUE
\* The text of a one-piece str.
TextOf(v) == IF v.s = <<>> THEN "" ELSE v.s[1].lit

\* ------------------------------------------------------------ the engine
\* SQLite matches identifiers without regard to ASCII letter case.
Fold(n) == IF n = "T" THEN "t" ELSE n

\* The columns every table of the model is created with.
KeyCols == <<PyTuple(<<Str("x"), Str("INTEGER")>>)>>

\* One row of the catalog (sqlite_master) together with the object's rows.
Entry(type, name, base) == [type |-> type, name |-> name, rows |-> {}, base |-> base]

\* The positions of the catalog entries a name resolves to.
Resolve(cat, n) == {i \in DOMAIN cat : Fold(cat[i].name) = Fold(n)}
Exists(cat, n) == Resolve(cat, n) # {}
EntryOf(cat, n) == cat[CHOOSE i \in Resolve(cat, n) : TRUE]

RECURSIVE SortedSeq(_)
\* The elements of a set of integers in ascending order (rowid order).
SortedSeq(S) ==
  IF S = {} THEN <<>>
  ELSE LET m == CHOOSE x \in S : \A y \in S : x <= y
       IN <<m>> \o SortedSeq(S \ {m})

\* A list of 1-tuples, as fetchall() returns the rows of a one-column result.
RowList(vals) == PyList([i \in 1..Len(vals) |-> PyTuple(<<PyInt(vals[i])>>)])

\* The abstract syntax of the statements of the model (for a text the
\* parser rejects, tbl holds the parser's message).
Stmt(op, tbl, vals, orFail, returning) ==
  [op |-> op, tbl |-> tbl, vals |-> vals, orFail |-> orFail, returning |-> returning]

\* The SQL texts a tool call may carry.
Queries ==
  { "CREATE TABLE t(x INTEGER PRIMARY KEY)",
    "CREATE TABLE T(x INTEGER PRIMARY KEY)",
    "CREATE TABLE \"a b\"(x INTEGER PRIMARY KEY)",
    "CREATE VIEW v AS SELECT x FROM t",
    "DROP TABLE t",
    "INSERT INTO t VALUES (1)",
    "INSERT OR FAIL INTO t VALUES (2),(1)",
    "INSERT INTO t VALUES (2) RETURNING x",
    "UPDATE t SET x = 2 WHERE x = 1",
    "DELETE FROM t WHERE x = 1",
    "SELECT * FROM t",
    "SELECT * FROM v",
    "SELEC * FROM t",
    "SELECT * FROM" }

\* What the engine's parser makes of each text.
Parse(text) ==
  CASE text = "CREATE TABLE t(x INTEGER PRIMARY KEY)" -> Stmt("CREATE TABLE", "t", <<>>, FALSE, FALSE)
    [] text = "CREATE TABLE T(x INTEGER PRIMARY KEY)" -> Stmt("CREATE TABLE", "T", <<>>, FALSE, FALSE)
    [] text = "CREATE TABLE \"a b\"(x INTEGER PRIMARY KEY)" -> Stmt("CREATE TABLE", "a b", <<>>, FALSE, FALSE)
    [] text = "CREATE VIEW v AS SELECT x FROM t" -> Stmt("CREATE VIEW", "v", <<>>, FALSE, FALSE)
    [] text = "DROP TABLE t" -> Stmt("DROP TABLE", "t", <<>>, FALSE, FALSE)
    [] text = "INSERT INTO t VALUES (1)" -> Stmt("INSERT", "t", <<1>>, FALSE, FALSE)
    [] text = "INSERT OR FAIL INTO t VALUES (2),(1)" -> Stmt("INSERT", "t", <<2, 1>>, TRUE, FALSE)
    [] text = "INSERT INTO t VALUES (2) RETURNING x" -> Stmt("INSERT", "t", <<2>>, FALSE, TRUE)
    [] text = "UPDATE t SET x = 2 WHERE x = 1" -> Stmt("UPDATE", "t", <<1, 2>>, FALSE, FALSE)
    [] text = "DELETE FROM t WHERE x = 1" -> Stmt("DELETE", "t", <<1>>, FALSE, FALSE)
    [] text = "SELECT * FROM t" -> Stmt("SELECT", "t", <<>>, FALSE, FALSE)
    [] text = "SELECT * FROM v" -> Stmt("SELECT", "v", <<>>, FALSE, FALSE)
    [] text = "SELECT * FROM" -> Stmt("SYNTAX", "incomplete input", <<>>, FALSE, FALSE)
    [] OTHER -> Stmt("SYNTAX", "near \"SELEC\": syntax error", <<>>, FALSE, FALSE)

\* The statements that change rows.
IsDml(st) == st.op \in {"INSERT", "UPDATE", "DELETE"}
\* The statements that change the catalog.
IsDdl(st) == st.op \in {"CREATE TABLE", "CREATE VIEW", "DROP TABLE"}

\* Outcomes of cursor.execute: a result set (cursor.description is set), no
\* result set, or an exception of the named class.
Rows(vals) == [kind |-> "rows", rows |-> RowList(vals), exc |-> "", msg |-> <<>>]
NoData == [kind |-> "nodata", rows |-> PyList(<<>>), exc |-> "", msg |-> <<>>]
Raise(exc, msg) == [kind |-> "raise", rows |-> PyList(<<>>), exc |-> exc, msg |-> msg]

\* A connection: the catalog and rows this connection sees, what is
\* committed to the database file, and whether a transaction is open.
Conn(db, committed, inTxn) == [db |-> db, committed |-> committed, inTxn |-> inTxn]

\* The catalog with the rows of the object a name resolves to replaced.
WithRows(cat, n, rows) ==
  [i \in DOMAIN cat |-> IF i \in Resolve(cat, n) THEN [cat[i] EXCEPT !.rows = rows] ELSE cat[i]]

\* The catalog without the object a name resolves to.
Without(cat, n) ==
  LET keep == SortedSeq(DOMAIN cat \ Resolve(cat, n))
  IN [i \in 1..Len(keep) |-> cat[keep[i]]]

\* A statement outside a transaction takes effect in the file at once
\* (autocommit); inside one it stays pending until commit.
Applied(c, db) == Conn(db, IF c.inTxn THEN c.committed ELSE db, c.inTxn)

RECURSIVE InsertAll(_, _, _)
\* Insert the values in order into a set of keys: the keys reached and
\* whether a UNIQUE constraint stopped the statement.
InsertAll(rows, vals, i) ==
  IF i > Len(vals) THEN [rows |-> rows, failed |-> FALSE]
  ELSE IF vals[i] \in rows THEN [rows |-> rows, failed |-> TRUE]
  ELSE InsertAll(rows \cup {vals[i]}, vals, i + 1)

NoSuchTable(n) == Raise("OperationalError", <<Lit("no such table: "), Lit(n)>>)
UniqueFailed == Raise("IntegrityError", <<Lit("UNIQUE constraint failed: t.x")>>)

\* A row-changing statement on a table that exists: the sqlite3 module
\* opens a transaction first, then the engine steps the statement.  A
\* failed statement is undone (ABORT) unless it says OR FAIL, which keeps
\* the rows changed before the failure.  The transaction stays open.
ExecDml(c, st) ==
  LET e == EntryOf(c.db, st.tbl)
      begun == Conn(c.db, c.committed, TRUE)
      set(rows) == Conn(WithRows(c.db, st.tbl, rows), c.committed, TRUE)
  IN CASE st.op = "INSERT" ->
            LET r == InsertAll(e.rows, st.vals, 1)
            IN IF r.failed
               THEN [conn |-> IF st.orFail THEN set(r.rows) ELSE begun, out |-> UniqueFailed]
               ELSE [conn |-> set(r.rows),
                     out |-> IF st.returning THEN Rows(st.vals) ELSE NoData]
       [] st.op = "UPDATE" ->
            IF st.vals[1] \notin e.rows THEN [conn |-> begun, out |-> NoData]
            ELSE IF st.vals[2] \in e.rows THEN [conn |-> begun, out |-> UniqueFailed]
            ELSE [conn |-> set((e.rows \ {st.vals[1]}) \cup {st.vals[2]}), out |-> NoData]
       [] OTHER ->
            [conn |-> set(e.rows \ {st.vals[1]}),
             out |-> IF st.returning THEN Rows(SortedSeq(e.rows \cap {st.vals[1]})) ELSE NoData]

\* cursor.execute(query) for a str query: the connection afterwards and the
\* outcome.  Errors found while the statement is prepared (syntax, missing
\* or unsuitable objects) leave the connection as it was.
Exec(c, st) ==
  LET cat == c.db
      same(out) == [conn |-> c, out |-> out]
  IN CASE st.op = "SYNTAX" ->
            same(Raise("OperationalError", <<Lit(st.tbl)>>))
       [] st.op = "SELECT" ->
            IF ~Exists(cat, st.tbl) THEN same(NoSuchTable(st.tbl))
            ELSE LET e == EntryOf(cat, st.tbl)
                 IN IF e.type = "table" THEN same(Rows(SortedSeq(e.rows)))
                    ELSE IF ~Exists(cat, e.base) THEN same(NoSuchTable(e.base))
                    ELSE same(Rows(SortedSeq(EntryOf(cat, e.base).rows)))
       [] st.op \in {"CREATE TABLE", "CREATE VIEW"} ->
            IF Exists(cat, st.tbl)
            THEN same(Raise("OperationalError",
                            <<Lit(EntryOf(cat, st.tbl).type), Lit(" "), Lit(st.tbl), Lit(" already exists")>>))
            ELSE [conn |-> Applied(c, Append(cat,
                     IF st.op = "CREATE TABLE" THEN Entry("table", st.tbl, "")
                     ELSE Entry("view", st.tbl, "t"))),
                  out |-> NoData]
       [] st.op = "DROP TABLE" ->
            IF ~Exists(cat, st.tbl) THEN same(NoSuchTable(st.tbl))
            ELSE IF EntryOf(cat, st.tbl).type = "view"
            THEN same(Raise("OperationalError", <<Lit("use DROP VIEW to delete view "), Lit(st.tbl)>>))
            ELSE [conn |-> Applied(c, Without(cat, st.tbl)), out |-> NoData]
       [] OTHER ->
            IF ~Exists(cat, st.tbl) THEN same(NoSuchTable(st.tbl))
            ELSE IF EntryOf(cat, st.tbl).type = "view"
            THEN same(Raise("OperationalError",
                            <<Lit("cannot modify "), Lit(st.tbl), Lit(" because it is a view")>>))
            ELSE ExecDml(c, st)

\* conn.commit(): what this connection sees becomes the file's content.
Commit(c) == Conn(c.db, c.db, FALSE)

\* A narrower except clause: `except sqlite3.IntegrityError`.
IsIntegrityErrorOnly(exc) == exc = "IntegrityError"

\* The exception classes `except sqlite3.Error` catches.
IsSqlite3Error(exc) == exc \in {"OperationalError", "IntegrityError", "ProgrammingError"}

\* ------------------------------------------------------------ the tools
\* What a tool call hands back: a returned value, or an exception that
\* leaves the function.
Return(v) == [raised |-> FALSE, exc |-> "", value |-> v]
Raised(exc) == [raised |-> TRUE, exc |-> exc, value |-> PyNone]

SuccessMessage == Str("Query executed successfully (no data returned).")

\* query_history.append(query), when a history list was given.
AppendHistory(query_history, query) ==
  IF query_history # PyNone THEN PyList(Append(query_history.items, query)) ELSE query_history

\* The try block of execute_sql and its except clause.
RunQuery(c, query) ==
  IF ~IsStr(query) THEN [conn |-> c, ret |-> Raised("TypeError")]
  ELSE LET r == Exec(c, Parse(TextOf(query)))
       IN IF r.out.kind = "raise"
          THEN IF IsSqlite3Error(r.out.exc)
               THEN [conn |-> r.conn, ret |-> Return(PyStr(<<Lit("Error: ")>> \o r.out.msg))]
               ELSE [conn |-> r.conn, ret |-> Raised(r.out.exc)]
          ELSE IF r.out.kind = "rows"
          THEN [conn |-> r.conn, ret |-> Return(PyStr(<<Repr(r.out.rows)>>))]
          ELSE [conn |-> Commit(r.conn), ret |-> Return(SuccessMessage)]

\* execute_sql with the append placed after the try block instead of before
\* it: a call that raises never reaches it.
execute_sql_append_last(c, query, query_history) ==
  LET r == RunQuery(c, query)
  IN [conn |-> r.conn,
      history |-> IF r.ret.raised THEN query_history ELSE AppendHistory(query_history, query),
      ret |-> r.ret]

\* execute_sql(conn, query, query_history): the connection and the history
\* afterwards, and what the call hands back.
execute_sql(c, query, query_history) ==
  LET h == AppendHistory(query_history, query)
      r == RunQuery(c, query)
  IN [conn |-> r.conn, history |-> h, ret |-> r.ret]

\* The names PRAGMA table_info takes as one identifier when they are
\* interpolated unquoted; any other text is a syntax error.
IsIdentifier(text) == text \in {"t", "T", "u", "v", "sqlite_master"}

\* The columns of the catalog table itself.
MasterCols ==
  <<PyTuple(<<Str("type"), Str("TEXT")>>), PyTuple(<<Str("name"), Str("TEXT")>>),
    PyTuple(<<Str("tbl_name"), Str("TEXT")>>), PyTuple(<<Str("rootpage"), Str("INT")>>),
    PyTuple(<<Str("sql"), Str("TEXT")>>)>>

\* A lookup of the name as spelled, letter case included.
TableInfoExactCase(cat, n) ==
  IF n = "sqlite_master" THEN MasterCols
  ELSE IF \E i \in DOMAIN cat : cat[i].name = n THEN KeyCols
  ELSE <<>>

\* PRAGMA table_info(name): the (name, type) pairs of the columns of the
\* table or view the name resolves to, none when it resolves to nothing.
TableInfo(cat, n) ==
  IF Fold(n) = "sqlite_master" THEN MasterCols
  ELSE IF Exists(cat, n) THEN KeyCols
  ELSE <<>>

\* SELECT name FROM sqlite_master WHERE type='table', in catalog order.
TableNames(cat) ==
  LET idx == SortedSeq({i \in DOMAIN cat : cat[i].type = "table"})
  IN [i \in 1..Len(idx) |-> Str(cat[idx[i]].name)]

\* get_schema ending with conn.commit(), as execute_sql's write path does.
get_schema_committing(c, table_name) ==
  IF Truthy(table_name)
  THEN IF ~IsIdentifier(TextOf(table_name))
       THEN [conn |-> c, ret |-> Raised("OperationalError")]
       ELSE [conn |-> Commit(c),
             ret |-> Return(PyStr(<<Repr(PyList(TableInfo(c.db, TextOf(table_name))))>>))]
  ELSE [conn |-> Commit(c), ret |-> Return(PyStr(<<Repr(PyList(TableNames(c.db)))>>))]

\* get_schema(conn, table_name): no try block surrounds the queries, so an
\* engine error leaves the function as an exception.
get_schema(c, table_name) ==
  IF Truthy(table_name)
  THEN IF ~IsIdentifier(TextOf(table_name))
       THEN [conn |-> c, ret |-> Raised("OperationalError")]
       ELSE [conn |-> c,
             ret |-> Return(PyStr(<<Repr(PyList(TableInfo(c.db, TextOf(table_name))))>>))]
  ELSE [conn |-> c, ret |-> Return(PyStr(<<Repr(PyList(TableNames(c.db)))>>))]

\* ----------------------------------------------------------------- paths
\* A path is a sequence of one-character strings.
Slash == "/"
Cwd == <<"/", "w">>
DotCsv == <<".", "c", "s", "v">>

\* str.lower(), character by character.
LowerChar(ch) ==
  CASE ch = "C" -> "c" [] ch = "S" -> "s" [] ch = "V" -> "v" [] ch = "O" -> "o" [] OTHER -> ch
Lower(p) == [i \in 1..Len(p) |-> LowerChar(p[i])]

\* str.endswith
EndsWith(p, suffix) ==
  /\ Len(p) >= Len(suffix)
  /\ SubSeq(p, Len(p) - Len(suffix) + 1, Len(p)) = suffix

\* os.path.join(a, b): an absolute b discards a.
PathJoin(a, b) ==
  IF b # <<>> /\ b[1] = Slash THEN b
  ELSE IF a = <<>> \/ a[Len(a)] = Slash THEN a \o b
  ELSE a \o <<Slash>> \o b

RECURSIVE SplitFrom(_, _, _)
SplitFrom(p, i, cur) ==
  LET done == IF cur = <<>> THEN <<>> ELSE <<cur>>
  IN IF i > Len(p) THEN done
     ELSE IF p[i] = Slash THEN done \o SplitFrom(p, i + 1, <<>>)
     ELSE SplitFrom(p, i + 1, Append(cur, p[i]))
\* The components of a path, empty ones dropped.
Components(p) == SplitFrom(p, 1, <<>>)

RECURSIVE NormFrom(_, _, _)
NormFrom(comps, i, stack) ==
  IF i > Len(comps) THEN stack
  ELSE IF comps[i] = <<".">> THEN NormFrom(comps, i + 1, stack)
  ELSE IF comps[i] = <<".", ".">>
  THEN NormFrom(comps, i + 1, IF stack = <<>> THEN stack ELSE SubSeq(stack, 1, Len(stack) - 1))
  ELSE NormFrom(comps, i + 1, Append(stack, comps[i]))

RECURSIVE JoinFrom(_, _)
JoinFrom(comps, i) ==
  IF i > Len(comps) THEN <<>> ELSE <<Slash>> \o comps[i] \o JoinFrom(comps, i + 1)
\* The absolute path with the given components.
FromComponents(comps) == IF comps = <<>> THEN <<Slash>> ELSE JoinFrom(comps, 1)

\* os.path.abspath of a path: joined to the working directory and
\* normalised ("." and ".." resolved).
AbsPath(p) == FromComponents(NormFrom(Components(PathJoin(Cwd, p)), 1, <<>>))

\* Every directory open() walks through on the way to the file exists.
DirsOnWay(p, dirs) ==
  LET comps == Components(p)
  IN \A k \in 0..(Len(comps) - 1) :
       FromComponents(NormFrom(SubSeq(comps, 1, k), 1, <<>>)) \in dirs

\* ------------------------------------------------------------ CSV export
\* The file system: the directories that exist and each file's rows.
Fs(dirs, files) == [dirs |-> dirs, files |-> files]

\* list(row) if isinstance(row, (list, tuple)) else [row]
NormaliseRow(row) == IF IsSeqLike(row) THEN row.items ELSE <<row>>
\* The text csv.writer writes for a field: None is the empty text, a str
\* is itself, any other value is its str().
Field(v) == IF v.t = "none" THEN Str("") ELSE IF IsStr(v) THEN v ELSE PyStr(<<Repr(v)>>)
CsvRow(row) == [i \in 1..Len(row) |-> Field(row[i])]
CsvRows(rows) == [i \in 1..Len(rows) |-> CsvRow(rows[i])]

\* The characters of a file name.
Unlit(name) == [i \in 1..Len(name.s) |-> name.s[i].lit]
LitChars(p) == [i \in 1..Len(p) |-> Lit(p[i])]

\* The file with the given rows put at a path, replacing what was there.
PutFile(files, path, rows) ==
  [q \in DOMAIN files \cup {path} |-> IF q = path THEN rows ELSE files[q]]

SavingError(what) == Return(PyStr(<<Lit("Error saving CSV: "), Lit(what)>>))

\* Whether data passes the type test of save_data_to_csv.
DataAccepted(data) == IsList(data)

\* The file name with ".csv" added unless it ends in it, letter case aside.
WithExtension(name) == IF EndsWith(Lower(name), DotCsv) THEN name ELSE name \o DotCsv

\* The path of the file that is opened for a file name.
FilePath(name) == PathJoin(PathJoin(Cwd, <<"f", "i", "l", "e", "s">>), name)

\* The rejection with the output directory prepared before the type test.
RejectDataAfterMakedirs(fs) ==
  [fs |-> Fs(fs.dirs \cup {PathJoin(Cwd, <<"f", "i", "l", "e", "s">>)}, fs.files),
   ret |-> Return(Str("Error: Data must be a list of tuples or lists."))]

\* The early return for data that is no list: nothing was touched yet.
RejectData(fs) ==
  [fs |-> fs, ret |-> Return(Str("Error: Data must be a list of tuples or lists."))]

\* save_data_to_csv(data, filename) on a file system.  io names the step
\* at which the operating system refuses, if any: "makedirs", "open", or
\* "write" after `written` rows reached the file.
save_data_to_csv(fs, data, filename, io, written) ==
  IF ~DataAccepted(data) THEN RejectData(fs)
  ELSE IF ~IsStr(filename)
  THEN [fs |-> fs, ret |-> SavingError("'int' object has no attribute 'lower'")]
  ELSE
    LET rows == [i \in 1..Len(data.items) |-> NormaliseRow(data.items[i])]
        name == WithExtension(Unlit(filename))
        base_dir == PathJoin(Cwd, <<"f", "i", "l", "e", "s">>)
        file_path == FilePath(name)
        made == Fs(fs.dirs \cup {base_dir}, fs.files)
        target == AbsPath(file_path)
    IN IF io = "makedirs" THEN [fs |-> fs, ret |-> SavingError("makedirs")]
       ELSE IF io = "open" \/ ~DirsOnWay(file_path, made.dirs) \/ target \in made.dirs
       THEN [fs |-> made, ret |-> SavingError("open")]
       ELSE IF io = "write"
       THEN [fs |-> Fs(made.dirs, PutFile(made.files, target, CsvRows(SubSeq(rows, 1, written)))),
             ret |-> SavingError("write")]
       ELSE [fs |-> Fs(made.dirs, PutFile(made.files, target, CsvRows(rows))),
             ret |-> Return(PyStr(<<Lit("Data saved successfully to: ")>> \o LitChars(target)))]

\* ------------------------------------------------------------- the state
\* conn, history: the connection and the history list the tools share.
\* fs: the file system.  ret: the last tool call and what it handed back.
\* calls, lastTables, schemaChanged, lists: a record of what was asked,
\* kept beside the program: the queries passed to execute_sql in order, the
\* last answer of get_schema(None), whether a statement changed the catalog
\* since, and how many times get_schema(None) was asked.
\* steps, saves: the number of tool calls so far.
\* agent: the reasoning loop's position, its iteration count, the tool it
\* picked and the observations gathered in the current run.
VARIABLES conn, history, calls, fs, ret, steps, saves, lastTables, schemaChanged, lists, agent

vars == <<conn, history, calls, fs, ret, steps, saves, lastTables, schemaChanged, lists, agent>>

\* The values the reasoning loop may pass as a query: SQL texts, and a
\* value that is no str (the tool's parameter carries no type).
QueryArgs == {Str(q) : q \in Queries} \cup {PyInt(5)}

\* The values passed as table_name.
NameArgs == {PyNone} \cup {Str(n) : n \in {"", "t", "T", "u", "v", "a b", "sqlite_master"}}

\* The values passed as data: the str execute_sql returns, lists of rows
\* and of other elements, a tuple of rows, the empty list.
DataArgs ==
  { PyStr(<<Repr(RowList(<<1>>))>>),
    PyList(<<PyTuple(<<PyInt(1), Str("Alice")>>), PyTuple(<<PyInt(2), Str("Bob")>>)>>),
    PyList(<<PyInt(3), PyNone, PyList(<<Str("ab")>>)>>),
    PyTuple(<<PyTuple(<<PyInt(1)>>)>>),
    PyList(<<>>) }

\* The values passed as filename.
FilenameArgs ==
  { Chars(<<"o">>), Chars(<<"o", ".", "c", "s", "v">>), Chars(<<"O", ".", "C", "S", "V">>),
    Chars(<<"/", "o">>), Chars(<<".", ".", "/", "o">>), Chars(<<"s", "/", "o">>),
    Chars(<<>>), PyInt(5) }

FilesDir == PathJoin(Cwd, <<"f", "i", "l", "e", "s">>)

NoCall == [tool |-> "none", args |-> <<>>] @@ Return(PyNone)
Call(tool, args, r) == [tool |-> tool, args |-> args] @@ r

\* The tools create_agent hands to the loop, by name.
all_tools == {"execute_sql", "get_schema", "save_data_to_csv"}

\* A cap one larger than the one configured.
max_iters_plus_one == 7 + 1

\* The cap on the loop's iterations that SQLAgent sets.
max_iters == 7

AgentAt(pc, iters, tool, obs) == [pc |-> pc, iters |-> iters, tool |-> tool, obs |-> obs]
Idle == AgentAt("idle", 0, "", <<>>)

\* The database the caller opened: empty, or holding table t with a row.
InitialDbs == {<<>>, <<[Entry("table", "t", "") EXCEPT !.rows = {1}]>>}

Init ==
  /\ \E db \in InitialDbs : conn = Conn(db, db, FALSE)
  /\ history \in {PyList(<<>>), PyNone}
  /\ calls = <<>>
  /\ fs \in {Fs({<<Slash>>, Cwd}, <<>>), Fs({<<Slash>>, Cwd, FilesDir}, <<>>)}
  /\ ret = NoCall
  /\ steps = 0
  /\ saves = 0
  /\ lastTables = PyNone
  /\ schemaChanged = FALSE
  /\ lists = 0
  /\ agent = Idle

\* Whether a call of execute_sql changed the catalog.
ChangesSchema(q, r) == IsStr(q) /\ IsDdl(Parse(TextOf(q))) /\ r = Return(SuccessMessage)

ExecuteSql ==
  \E q \in QueryArgs :
    /\ steps < MaxSteps
    /\ LET r == execute_sql(conn, q, history)
       IN /\ conn' = r.conn
          /\ history' = r.history
          /\ ret' = Call("execute_sql", <<q>>, r.ret)
          /\ schemaChanged' = (schemaChanged \/ ChangesSchema(q, r.ret))
    /\ calls' = Append(calls, q)
    /\ steps' = steps + 1
    /\ UNCHANGED <<fs, saves, lastTables, lists, agent>>

GetSchema ==
  \E n \in NameArgs :
    /\ steps < MaxSteps
    /\ LET r == get_schema(conn, n)
       IN /\ conn' = r.conn
          /\ ret' = Call("get_schema", <<n>>, r.ret)
          /\ IF Truthy(n)
             THEN UNCHANGED <<lastTables, schemaChanged, lists>>
             ELSE /\ lastTables' = r.ret.value
                  /\ schemaChanged' = FALSE
                  /\ lists' = lists + 1
    /\ steps' = steps + 1
    /\ UNCHANGED <<history, calls, fs, saves, agent>>

SaveDataToCsv ==
  \E d \in DataArgs, f \in FilenameArgs, io \in {"ok", "makedirs", "open", "write"} :
    \E written \in 0..(IF io = "write" /\ IsList(d) /\ Len(d.items) > 0 THEN Len(d.items) - 1 ELSE 0) :
      /\ saves < MaxSaves
      /\ LET r == save_data_to_csv(fs, d, f, io, written)
         IN /\ fs' = r.fs
            /\ ret' = Call("save_data_to_csv", <<d, f>>, r.ret)
      /\ saves' = saves + 1
      /\ UNCHANGED <<conn, history, calls, steps, lastTables, schemaChanged, lists, agent>>

\* SQLAgent.forward: a run of the loop starts on a question.
Forward ==
  /\ agent.pc \in {"idle", "done"}
  /\ agent' = AgentAt("thinking", 0, "", <<>>)
  /\ UNCHANGED <<conn, history, calls, fs, ret, steps, saves, lastTables, schemaChanged, lists>>

\* The loop thinks: below the cap it picks a tool to call, or decides that
\* it can answer.
Think ==
  /\ agent.pc = "thinking"
  /\ agent.iters < max_iters
  /\ \/ \E tool \in all_tools : agent' = [agent EXCEPT !.pc = "acting", !.tool = tool]
     \/ agent' = [agent EXCEPT !.pc = "answering"]
  /\ UNCHANGED <<conn, history, calls, fs, ret, steps, saves, lastTables, schemaChanged, lists>>

\* The loop calls the tool and observes what it hands back: a result, or a
\* string that describes an error.  That ends one iteration.
Act ==
  /\ agent.pc = "acting"
  /\ \E o \in {"result", "error"} :
       agent' = [agent EXCEPT !.pc = IF agent.iters + 1 >= max_iters THEN "answering" ELSE "thinking",
                              !.iters = agent.iters + 1,
                              !.obs = Append(agent.obs, o)]
  /\ UNCHANGED <<conn, history, calls, fs, ret, steps, saves, lastTables, schemaChanged, lists>>

\* The loop writes the final answer from what it gathered.
Answer ==
  /\ agent.pc = "answering"
  /\ agent' = [agent EXCEPT !.pc = "done"]
  /\ UNCHANGED <<conn, history, calls, fs, ret, steps, saves, lastTables, schemaChanged, lists>>

\* The steps of a run once it has started.
Run == Think \/ Act \/ Answer

NextAgent == Forward \/ Think \/ Act \/ Answer

\* The loop is synchronous: a started run keeps taking its next step.
SpecAgent == Init /\ [][NextAgent]_vars /\ WF_vars(Run)

\* The database tools, called in any order with any arguments.
Next == GetSchema \/ ExecuteSql

Spec == Init /\ [][Next]_vars

\* The CSV exporter, called with any arguments.
NextCsv == SaveDataToCsv

SpecCsv == Init /\ [][NextCsv]_vars

\* ------------------------------------------------- properties: the tools
\* The last call was a call of execute_sql with a str as its query.
SqlCall == ret.tool = "execute_sql" /\ IsStr(ret.args[1])
\* The statement of the last call of execute_sql.
LastStmt == Parse(TextOf(ret.args[1]))
\* A value handed back that is a str beginning with "Error: ".
IsErrorString(r) ==
  /\ ~r.raised
  /\ IsStr(r.value)
  /\ r.value.s # <<>>
  /\ r.value.s[1] = Lit("Error: ")
\* The step is a call of the named tool.
StepOf(tool) == (steps' = steps + 1 \/ saves' = saves + 1) /\ ret'.tool = tool

\* C1: with a history list given, after N calls of execute_sql the list
\* holds exactly the N queries in call order, whether a call returned rows,
\* succeeded, returned an error or raised.
C1_HistoryHoldsEveryCall == history # PyNone => history.items = calls

\* A history of at least two entries whose last call returned an error.
C1_Witness ==
  /\ history # PyNone
  /\ Len(calls) >= 2
  /\ ret.tool = "execute_sql"
  /\ IsErrorString(ret)

\* C2: a row-changing statement that execute_sql runs without error is
\* committed when execute_sql returns, and the fixed success message is
\* returned.
C2_DmlIsCommitted ==
  (SqlCall /\ IsDml(LastStmt) /\ ~ret.raised /\ ~IsErrorString(ret))
    => /\ ret.value = SuccessMessage
       /\ conn.committed = conn.db
       /\ ~conn.inTxn

\* C3: for a text the parser rejects, execute_sql returns "Error: "
\* followed by the engine's message, and does not raise.
C3_MalformedSqlReturnsError ==
  (SqlCall /\ LastStmt.op = "SYNTAX")
    => /\ ~ret.raised
       /\ ret.value = PyStr(<<Lit("Error: "), Lit(LastStmt.tbl)>>)

\* A rejected text as the second or a later call of the session.
C3_Witness == SqlCall /\ LastStmt.op = "SYNTAX" /\ Len(calls) >= 2

\* C4: no tool call ends in an exception; each hands back a str.
C4_NoToolRaises == ret.tool # "none" => (~ret.raised /\ IsStr(ret.value))

\* The names sqlite_master lists as tables.
ListedNames == {conn.db[i].name : i \in {j \in DOMAIN conn.db : conn.db[j].type = "table"}}
\* The last call was get_schema with a str as table_name.
SchemaCallFor == ret.tool = "get_schema" /\ IsStr(ret.args[1])
\* A call that handed back the rendering of a non-empty list.
ReturnedNonEmptyList ==
  /\ ~ret.raised
  /\ IsStr(ret.value)
  /\ ret.value.s # <<>>
  /\ ret.value.s[1].repr.items # <<>>

C6_GetSchemaReadsOnly ==
  [][StepOf("get_schema") =>
       /\ conn' = conn
       /\ history' = history
       /\ (~Truthy(ret'.args[1]) /\ lists > 0 /\ ~schemaChanged) => ret'.value = lastTables]_vars

\* get_schema(None) asked a second time, after a statement ran inside a
\* transaction that is still open, with a table to list.
C6_Witness ==
  /\ ret.tool = "get_schema"
  /\ ~Truthy(ret.args[1])
  /\ lists >= 2
  /\ calls # <<>>
  /\ conn.inTxn
  /\ ListedNames # {}

\* C10: a call of execute_sql that returns an "Error: " string leaves the
\* rows and the catalog this connection sees as they were, commits nothing,
\* and adds exactly one entry to the history.
C10_ErrorLeavesDatabase ==
  [][(StepOf("execute_sql") /\ IsErrorString(ret')) =>
       /\ conn'.db = conn.db
       /\ conn'.committed = conn.committed
       /\ history # PyNone => history'.items = Append(history.items, ret'.args[1])]_vars

\* ------------------------------------------- properties: the CSV exporter
\* A call that handed back the success message of save_data_to_csv.
Saved(r) ==
  /\ ~r.raised
  /\ IsStr(r.value)
  /\ r.value.s # <<>>
  /\ r.value.s[1] = Lit("Data saved successfully to: ")

C8_SavedUnderFilesDir ==
  [][(StepOf("save_data_to_csv") /\ Saved(ret')) =>
       LET f == Unlit(ret'.args[2])
           name == IF EndsWith(Lower(f), DotCsv) THEN f ELSE f \o DotCsv
           path == FilesDir \o <<Slash>> \o name
           rows == [i \in 1..Len(ret'.args[1].items) |->
                      IF IsSeqLike(ret'.args[1].items[i])
                      THEN CsvRow(ret'.args[1].items[i].items)
                      ELSE CsvRow(<<ret'.args[1].items[i]>>)]
       IN /\ fs'.files = PutFile(fs.files, path, rows)
          /\ ret'.value = PyStr(<<Lit("Data saved successfully to: ")>> \o LitChars(path))]_vars

\* --------------------------------------------- properties: the agent loop
\* C9: a run performs at most 7 iterations, so at most 7 tool calls, and
\* every started run reaches its final answer, whatever the tools hand
\* back.
C9_RunEndsWithinSevenCalls ==
  /\ [](agent.iters <= 7 /\ Len(agent.obs) <= 7)
  /\ [](agent.pc \in {"thinking", "acting", "answering"} => <>(agent.pc = "done"))

\* A run that ended after seven tool calls, each of which handed back an
\* error.
C9_Witness ==
  /\ agent.pc = "done"
  /\ Len(agent.obs) = 7
  /\ \A i \in 1..7 : agent.obs[i] = "error"
====
